---------------------------- MODULE Spec2Model ----------------------------
(***************************************************************************)
(* Model of the sound-wave synthesis library in src/solution_script.py:    *)
(* the SoundWaveFactory methods, the module-level timelines and the NOTES  *)
(* table.  Every method is one action that draws its arguments from        *)
(* bounded sets, runs the whole method and records what it returned (or    *)
(* the exception it raised) together with the objects it was handed.       *)
(*                                                                         *)
(* Arithmetic is exact: a real number is a reduced fraction <<n, d>> with  *)
(* d > 0; NaN is <<0, 0>> and +/-infinity is <<+/-1, 0>>, the values       *)
(* numpy produces for a division by zero.  Floating-point rounding is not  *)
(* modelled.  A sine sample A*sin(2*pi*p) is kept symbolically, see Sin.   *)
(*                                                                         *)
(* The methods that only write or name files (save_wave, save_melody,      *)
(* read_wave_from_txt) and combine_waves are not part of the model.        *)
(***************************************************************************)
EXTENDS Integers, Sequences, FiniteSets, TLC

(***************************************************************************)
(* Bounds of the model.                                                    *)
(***************************************************************************)
\* Samples per second.  The source uses 44100 (solution_script.py:7); the
\* model runs the same arithmetic at a rate small enough to enumerate.
\* The rate must be at least 4: at 1 seconds and samples coincide, and
\* below 4 the truncations of int() weigh as much as a whole second.
SAMPLING_RATE == 4
\* Durations handed to the methods are k / TimeDen seconds, k \in 0..MaxTicks.
TimeDen == 3
MaxTicks == 6
\* Longest signal handed to perform_adsr_mods, in samples.
MaxLen == 8
\* Sustain levels are k / LevelDen, k \in 0..LevelDen.
LevelDen == 2
\* Signals handed to normalize_sound_waves and convert_wave: at most
\* MaxWaves signals of at most MaxShortLen samples each.
MaxWaves == 2
MaxShortLen == 2
\* Longest melody text, in vocabulary items, and largest chord.
MaxItems == 4
MaxChord == 2

(***************************************************************************)
(* Exact rational arithmetic with numpy's non-finite values.               *)
(***************************************************************************)
Abs(x) == IF x < 0 THEN -x ELSE x

Sgn(x) == IF x < 0 THEN -1 ELSE IF x > 0 THEN 1 ELSE 0

RECURSIVE GCD(_, _)
GCD(a, b) == IF b = 0 THEN a ELSE GCD(b, a % b)

\* The fraction n / d in lowest terms; n / 0 is NaN (n = 0) or an infinity.
Rat(n, d) ==
    IF d = 0 THEN <<Sgn(n), 0>>
    ELSE LET g == GCD(Abs(n), Abs(d))
         IN  <<Sgn(d) * Sgn(n) * (Abs(n) \div g), Abs(d) \div g>>

NaN == <<0, 0>>
IsNaN(x) == x = NaN
IsFinite(x) == x[2] # 0
Zero == <<0, 1>>
One == <<1, 1>>

RAdd(x, y) ==
    IF IsFinite(x) /\ IsFinite(y) THEN Rat(x[1] * y[2] + y[1] * x[2], x[2] * y[2])
    ELSE IF IsNaN(x) \/ IsNaN(y) THEN NaN
    ELSE IF ~IsFinite(x) /\ ~IsFinite(y) /\ x # y THEN NaN
    ELSE IF IsFinite(x) THEN y ELSE x

RNeg(x) == <<-x[1], x[2]>>

RSub(x, y) == RAdd(x, RNeg(y))

RMul(x, y) ==
    IF IsFinite(x) /\ IsFinite(y) THEN Rat(x[1] * y[1], x[2] * y[2])
    ELSE <<Sgn(x[1]) * Sgn(y[1]), 0>>

RDiv(x, y) ==
    IF IsFinite(x) /\ IsFinite(y)
    THEN IF y[1] = 0 THEN <<Sgn(x[1]), 0>> ELSE Rat(x[1] * y[2], x[2] * y[1])
    ELSE IF IsFinite(x) /\ ~IsNaN(y) THEN Zero
    ELSE IF IsFinite(y) /\ ~IsNaN(x) THEN <<x[1] * (IF y[1] < 0 THEN -1 ELSE 1), 0>>
    ELSE NaN

RAbs(x) == <<Abs(x[1]), x[2]>>

\* x < y, false when either is NaN (IEEE comparison).
RLess(x, y) ==
    IF IsNaN(x) \/ IsNaN(y) THEN FALSE
    ELSE IF IsFinite(x) /\ IsFinite(y) THEN x[1] * y[2] < y[1] * x[2]
    ELSE IF IsFinite(x) THEN y[1] > 0
    ELSE IF IsFinite(y) THEN x[1] < 0
    ELSE x[1] < y[1]

RLeq(x, y) == RLess(x, y) \/ (x = y /\ ~IsNaN(x))

\* Python's int(): truncation toward zero of a finite real.
int(x) == Sgn(x[1]) * (Abs(x[1]) \div x[2])

\* numpy.floor; NaN stays NaN.
RFloor(x) ==
    IF ~IsFinite(x) THEN x
    ELSE IF x[1] >= 0 THEN <<x[1] \div x[2], 1>>
    ELSE <<-((-x[1] + x[2] - 1) \div x[2]), 1>>

\* numpy.sign; NaN stays NaN.
RSign(x) == IF IsNaN(x) THEN NaN ELSE <<Sgn(x[1]), 1>>

(***************************************************************************)
(* Results of a call: a returned value or a raised exception.              *)
(***************************************************************************)
None == <<>>
Return(v) == [error |-> "", value |-> v]
Raise(e) == [error |-> e, value |-> None]
Raised(r) == r.error # ""

(***************************************************************************)
(* Module-level constants (solution_script.py:7-31).                       *)
(***************************************************************************)
DURATION_SECONDS == 5
SOUND_ARRAY_LEN == SAMPLING_RATE * DURATION_SECONDS
MAX_AMPLITUDE == 2 ^ 13

\* The note table, each frequency the exact decimal of the source.  A Python
\* string that the methods take apart (a note name, a melody text, a token)
\* is the sequence of its characters.
NOTES ==
    (<<"0">> :> <<0, 1>>) @@ (<<"e", "0">> :> <<515043, 25000>>) @@ (<<"f", "0">> :> <<545669, 25000>>) @@
    (<<"f", "#", "0">> :> <<462493, 20000>>) @@ (<<"g", "0">> :> <<2449971, 100000>>) @@ (<<"g", "#", "0">> :> <<1297827, 50000>>) @@
    (<<"a", "0">> :> <<55, 2>>) @@ (<<"a", "#", "0">> :> <<728381, 25000>>) @@ (<<"b", "0">> :> <<3086771, 100000>>) @@
    (<<"c", "0">> :> <<40879, 1250>>) @@ (<<"c", "#", "0">> :> <<3464783, 100000>>) @@ (<<"d", "0">> :> <<367081, 10000>>) @@
    (<<"d", "#", "0">> :> <<3889087, 100000>>) @@ (<<"e", "1">> :> <<515043, 12500>>) @@ (<<"f", "1">> :> <<4365353, 100000>>) @@
    (<<"f", "#", "1">> :> <<462493, 10000>>) @@ (<<"g", "1">> :> <<4899943, 100000>>) @@ (<<"g", "#", "1">> :> <<5191309, 100000>>) @@
    (<<"a", "1">> :> <<55, 1>>) @@ (<<"a", "#", "1">> :> <<5827047, 100000>>) @@ (<<"b", "1">> :> <<6173541, 100000>>) @@
    (<<"c", "1">> :> <<6540639, 100000>>) @@ (<<"c", "#", "1">> :> <<3464783, 50000>>) @@ (<<"d", "1">> :> <<7341619, 100000>>) @@
    (<<"d", "#", "1">> :> <<311127, 4000>>) @@ (<<"e", "2">> :> <<8240689, 100000>>) @@ (<<"f", "2">> :> <<4365353, 50000>>) @@
    (<<"f", "#", "2">> :> <<9249861, 100000>>) @@ (<<"g", "2">> :> <<4899943, 50000>>) @@ (<<"g", "#", "2">> :> <<519131, 5000>>) @@
    (<<"a", "2">> :> <<110, 1>>) @@ (<<"a", "#", "2">> :> <<1165409, 10000>>) @@ (<<"b", "2">> :> <<308677, 2500>>) @@
    (<<"c", "2">> :> <<81758, 625>>) @@ (<<"c", "#", "2">> :> <<1385913, 10000>>) @@ (<<"d", "2">> :> <<367081, 2500>>) @@
    (<<"d", "#", "2">> :> <<311127, 2000>>) @@ (<<"e", "3">> :> <<824069, 5000>>) @@ (<<"f", "3">> :> <<1746141, 10000>>) @@
    (<<"f", "#", "3">> :> <<462493, 2500>>) @@ (<<"g", "3">> :> <<1959977, 10000>>) @@ (<<"g", "#", "3">> :> <<2076523, 10000>>) @@
    (<<"a", "3">> :> <<220, 1>>) @@ (<<"a", "#", "3">> :> <<2330819, 10000>>) @@ (<<"b", "3">> :> <<2469417, 10000>>) @@
    (<<"c", "3">> :> <<163516, 625>>) @@ (<<"c", "#", "3">> :> <<1385913, 5000>>) @@ (<<"d", "3">> :> <<367081, 1250>>) @@
    (<<"d", "#", "3">> :> <<311127, 1000>>) @@ (<<"e", "4">> :> <<824069, 2500>>) @@ (<<"f", "4">> :> <<1746141, 5000>>) @@
    (<<"f", "#", "4">> :> <<462493, 1250>>) @@ (<<"g", "4">> :> <<1959977, 5000>>) @@ (<<"g", "#", "4">> :> <<4153047, 10000>>) @@
    (<<"a", "4">> :> <<440, 1>>) @@ (<<"a", "#", "4">> :> <<2330819, 5000>>) @@ (<<"b", "4">> :> <<4938833, 10000>>) @@
    (<<"c", "4">> :> <<5232511, 10000>>) @@ (<<"c", "#", "4">> :> <<5543653, 10000>>) @@ (<<"d", "4">> :> <<1174659, 2000>>) @@
    (<<"d", "#", "4">> :> <<311127, 500>>) @@ (<<"e", "5">> :> <<6592551, 10000>>) @@ (<<"f", "5">> :> <<1396913, 2000>>) @@
    (<<"f", "#", "5">> :> <<462493, 625>>) @@ (<<"g", "5">> :> <<7839909, 10000>>) @@ (<<"g", "#", "5">> :> <<4153047, 5000>>) @@
    (<<"a", "5">> :> <<880, 1>>) @@ (<<"a", "#", "5">> :> <<372931, 400>>) @@ (<<"b", "5">> :> <<4938833, 5000>>) @@
    (<<"c", "5">> :> <<523251, 500>>) @@ (<<"c", "#", "5">> :> <<1108731, 1000>>) @@ (<<"d", "5">> :> <<1174659, 1000>>) @@
    (<<"d", "#", "5">> :> <<311127, 250>>) @@ (<<"e", "6">> :> <<131851, 100>>) @@ (<<"f", "6">> :> <<1396913, 1000>>) @@
    (<<"f", "#", "6">> :> <<739989, 500>>) @@ (<<"g", "6">> :> <<783991, 500>>) @@ (<<"g", "#", "6">> :> <<1661219, 1000>>) @@
    (<<"a", "6">> :> <<1760, 1>>) @@ (<<"a", "#", "6">> :> <<372931, 200>>) @@ (<<"b", "6">> :> <<1975533, 1000>>) @@
    (<<"c", "6">> :> <<418601, 200>>) @@ (<<"c", "#", "6">> :> <<2217461, 1000>>) @@ (<<"d", "6">> :> <<1174659, 500>>) @@
    (<<"d", "#", "6">> :> <<311127, 125>>) @@ (<<"e", "7">> :> <<131851, 50>>) @@ (<<"f", "7">> :> <<1396913, 500>>) @@
    (<<"f", "#", "7">> :> <<591991, 200>>) @@ (<<"g", "7">> :> <<3135963, 1000>>) @@ (<<"g", "#", "7">> :> <<1661219, 500>>) @@
    (<<"a", "7">> :> <<3520, 1>>) @@ (<<"a", "#", "7">> :> <<372931, 100>>) @@ (<<"b", "7">> :> <<1975533, 500>>) @@
    (<<"c", "7">> :> <<4186009, 1000>>) @@ (<<"c", "#", "7">> :> <<2217461, 500>>) @@ (<<"d", "7">> :> <<1174659, 250>>) @@
    (<<"d", "#", "7">> :> <<622254, 125>>)

(***************************************************************************)
(* Timelines.                                                              *)
(***************************************************************************)
\* numpy.linspace(0, stop, num, endpoint): num timestamps i * stop / div,
\* div = num - 1 with the endpoint and num without it.  Element i of the
\* array is element i + 1 of the sequence.
linspace(stop, num, endpoint) ==
    LET div == IF endpoint THEN num - 1 ELSE num
    IN  [k \in 1..num |->
            IF div > 0 THEN RDiv(RMul(<<k - 1, 1>>, stop), <<div, 1>>) ELSE Zero]

common_timeline == linspace(<<DURATION_SECONDS, 1>>, SOUND_ARRAY_LEN, TRUE)

set_custom_common_timeline(duration) ==
    LET sound_array_len == int(RMul(<<SAMPLING_RATE, 1>>, duration))
        custom_timeline == linspace(duration, sound_array_len, FALSE)
    IN  custom_timeline

(***************************************************************************)
(* Sine samples.  amplitude * sin(2*pi*x) is determined by the fractional  *)
(* part p of x: it is 0 for p \in {0, 1/2} and otherwise                   *)
(* +/-amplitude * sin(2*pi*q) with q \in (0, 1/4] the distance of p to the *)
(* nearest multiple of 1/2.  sin is injective on (0, 1/4], so two samples  *)
(* of one amplitude are equal reals exactly when their <<coefficient, q>>  *)
(* agree.  A sample is a set of such terms, read as their sum; {} is 0.    *)
(***************************************************************************)
Frac(x) == RSub(x, RFloor(x))

Sin(amplitude, x) ==
    LET p == Frac(x)
        half == <<1, 2>>
        quarter == <<1, 4>>
    IN  IF amplitude = 0 \/ p = Zero \/ p = half THEN {}
        ELSE IF RLeq(p, quarter) THEN {<<amplitude, p>>}
        ELSE IF RLess(p, half) THEN {<<amplitude, RSub(half, p)>>}
        ELSE IF RLeq(p, <<3, 4>>) THEN {<<-amplitude, RSub(p, half)>>}
        ELSE {<<-amplitude, RSub(One, p)>>}

Silence == {}

Coef(s, q) == IF \E t \in s : t[2] = q THEN (CHOOSE t \in s : t[2] = q)[1] ELSE 0

\* The sum of two samples.
SampleAdd(s, t) ==
    LET qs == {u[2] : u \in s \cup t}
    IN  {<<Coef(s, q) + Coef(t, q), q>> : q \in {r \in qs : Coef(s, r) + Coef(t, r) # 0}}

(***************************************************************************)
(* SoundWave (solution_script.py:38-54).                                   *)
(***************************************************************************)
SoundWave(note_str, sound_wave) == [note_str |-> note_str, sound_wave |-> sound_wave]

(***************************************************************************)
(* SoundWaveFactory: synthesis (solution_script.py:86-135).                *)
(***************************************************************************)
get_normed_sin(timeline, frequency) ==
    [k \in 1..Len(timeline) |-> Sin(MAX_AMPLITUDE, RMul(frequency, timeline[k]))]

get_soundwave(timeline, note) == get_normed_sin(timeline, NOTES[note])

\* duration = None selects the module-level default timeline.  An unknown
\* note raises KeyError at the table lookup.
create_sound_wave(note_str, duration) ==
    LET timeline == IF duration # None THEN set_custom_common_timeline(duration)
                    ELSE common_timeline
    IN  IF note_str \notin DOMAIN NOTES THEN Raise("KeyError")
        ELSE Return(SoundWave(note_str, get_soundwave(timeline, note_str)))

(***************************************************************************)
(* numpy array primitives used by the methods.                             *)
(***************************************************************************)
zeros(n) == [k \in 1..n |-> Zero]

\* wave[:n] for n >= 0.
Prefix(wave, n) == SubSeq(wave, 1, IF n < Len(wave) THEN n ELSE Len(wave))

RMax(x, y) == IF IsNaN(x) \/ IsNaN(y) THEN NaN ELSE IF RLess(x, y) THEN y ELSE x

RECURSIVE MaxFrom(_, _)
MaxFrom(wave, k) ==
    IF k = Len(wave) THEN wave[k] ELSE RMax(wave[k], MaxFrom(wave, k + 1))

\* numpy.max(numpy.abs(wave)); raises ValueError on an empty array.
max_abs(wave) ==
    IF Len(wave) = 0 THEN Raise("ValueError")
    ELSE Return(MaxFrom([k \in 1..Len(wave) |-> RAbs(wave[k])], 1))

\* An index i of an array of length n, as numpy resolves it: negative
\* indices count from the end, anything outside -n..n-1 raises IndexError.
InBounds(n, i) == -n <= i /\ i < n
Resolve(n, i) == IF i < 0 THEN i + n ELSE i

\* One bound of the slice a[start:stop] of an array of length n.
SliceBound(n, i) ==
    IF i < 0 THEN (IF i + n < 0 THEN 0 ELSE i + n) ELSE (IF i > n THEN n ELSE i)

\* a[start:stop] = value.
SliceAssign(a, start, stop, value) ==
    LET lo == SliceBound(Len(a), start)
        hi == SliceBound(Len(a), stop)
    IN  [k \in 1..Len(a) |-> IF lo <= k - 1 /\ k - 1 < hi THEN value ELSE a[k]]

\* for i in range(count): a[base + i] = value(i), the values given as the
\* sequence writes; stops at the first index out of bounds.
RECURSIVE StoreLoop(_, _, _, _)
StoreLoop(a, base, writes, i) ==
    IF i >= Len(writes) THEN [error |-> "", array |-> a]
    ELSE IF ~InBounds(Len(a), base + i) THEN [error |-> "IndexError", array |-> a]
    ELSE StoreLoop([a EXCEPT ![Resolve(Len(a), base + i) + 1] = writes[i + 1]],
                   base, writes, i + 1)

(***************************************************************************)
(* SoundWaveFactory.normalize_sound_waves (solution_script.py:137-156).    *)
(***************************************************************************)
RECURSIVE MinLen(_, _)
MinLen(waves, k) ==
    IF k = Len(waves) THEN Len(waves[k])
    ELSE LET rest == MinLen(waves, k + 1)
         IN  IF Len(waves[k]) < rest THEN Len(waves[k]) ELSE rest

\* Variant: the peak taken over the whole wave instead of its prefix.
NormalizationPeakWhole(wave, min_length) == max_abs(wave)

\* The peak that one wave is divided by.
NormalizationPeak(wave, min_length) == max_abs(Prefix(wave, min_length))

normalize_sound_waves(waves) ==
    IF Len(waves) = 0 THEN Raise("ValueError")
    ELSE
      LET min_length == MinLen(waves, 1)
          peak(k) == NormalizationPeak(waves[k], min_length)
          normalized_wave(k) ==
              LET truncated_wave == Prefix(waves[k], min_length)
              IN  [j \in 1..Len(truncated_wave) |->
                      RMul(RDiv(truncated_wave[j], peak(k).value),
                           <<MAX_AMPLITUDE, 1>>)]
      IN  IF \E k \in 1..Len(waves) : Raised(peak(k)) THEN Raise("ValueError")
          ELSE Return([k \in 1..Len(waves) |-> normalized_wave(k)])

(***************************************************************************)
(* SoundWaveFactory.perform_adsr_mods (solution_script.py:158-181).        *)
(* Returns the locals at the end of the call (or at the raise), the        *)
(* exception if any, and the wave object as the call leaves it.            *)
(***************************************************************************)
\* Variant: the sustain length counted in samples, the samples the other
\* three segments leave.
SustainSamplesInSamples(length, attack_time, decay_time, release_time) ==
    length - int(RMul(attack_time, <<SAMPLING_RATE, 1>>))
           - int(RMul(decay_time, <<SAMPLING_RATE, 1>>))
           - int(RMul(release_time, <<SAMPLING_RATE, 1>>))

\* The length of the sustain segment as the method computes it.
SustainSamples(length, attack_time, decay_time, release_time) ==
    int(RSub(RDiv(<<length, 1>>, <<SAMPLING_RATE, 1>>),
             RAdd(RAdd(attack_time, decay_time), release_time)))

perform_adsr_mods(wave, attack_time, decay_time, sustain_level, release_time) ==
    LET sample_rate == <<SAMPLING_RATE, 1>>
        sound_wave == wave.sound_wave
        attack_samples == int(RMul(attack_time, sample_rate))
        decay_samples == int(RMul(decay_time, sample_rate))
        sustain_samples ==
            SustainSamples(Len(sound_wave), attack_time, decay_time, release_time)
        release_samples == int(RMul(release_time, sample_rate))
        attack == [k \in 1..attack_samples |-> Rat(k - 1, attack_samples)]
        decay == [k \in 1..decay_samples |->
                    RSub(One, RMul(Rat(k - 1, decay_samples), RSub(One, sustain_level)))]
        release == [k \in 1..release_samples |->
                    RMul(sustain_level, RSub(One, Rat(k - 1, release_samples)))]
        s1 == StoreLoop(zeros(Len(sound_wave)), 0, attack, 0)
        s2 == IF s1.error # "" THEN s1
              ELSE StoreLoop(s1.array, attack_samples, decay, 0)
        s3 == IF s2.error # "" THEN s2
              ELSE [error |-> "",
                    array |-> SliceAssign(s2.array, attack_samples + decay_samples,
                                          attack_samples + decay_samples + sustain_samples,
                                          sustain_level)]
        s4 == IF s3.error # "" THEN s3
              ELSE StoreLoop(s3.array, attack_samples + decay_samples + sustain_samples,
                             release, 0)
        modulated_sound == [k \in 1..Len(sound_wave) |-> RMul(sound_wave[k], s4.array[k])]
    IN  [error |-> s4.error,
         locals |-> [attack_samples |-> attack_samples,
                     decay_samples |-> decay_samples,
                     sustain_samples |-> sustain_samples,
                     release_samples |-> release_samples,
                     envelope |-> s4.array],
         wave |-> IF s4.error # "" THEN wave
                  ELSE [wave EXCEPT !.sound_wave = modulated_sound]]

(***************************************************************************)
(* SoundWaveFactory.convert_wave and the two shapes                        *)
(* (solution_script.py:219-272).                                           *)
(***************************************************************************)
\* sine_wave / numpy.max(numpy.abs(sine_wave))
NormalizedSine(sine_wave, peak) ==
    [k \in 1..Len(sine_wave) |-> RDiv(sine_wave[k], peak)]

create_triangular_wave(sine_wave) ==
    LET peak == max_abs(sine_wave)
        tri(x) == RSub(RMul(<<2, 1>>,
                            RAbs(RMul(<<2, 1>>, RSub(x, RFloor(RAdd(x, <<1, 2>>)))))),
                       One)
    IN  IF Raised(peak) THEN peak
        ELSE LET normalized_sine == NormalizedSine(sine_wave, peak.value)
             IN  Return([k \in 1..Len(sine_wave) |-> tri(normalized_sine[k])])

\* One sample of the square wave: 0.5 * (1 + numpy.sign(x)).
SquareSample(x) == RMul(<<1, 2>>, RAdd(One, RSign(x)))

create_square_wave(sine_wave) ==
    LET peak == max_abs(sine_wave)
    IN  IF Raised(peak) THEN peak
        ELSE LET normalized_sine == NormalizedSine(sine_wave, peak.value)
             IN  Return([k \in 1..Len(sine_wave) |-> SquareSample(normalized_sine[k])])

convert_wave(sine_wave, wave_type) ==
    IF wave_type = "triangular" THEN create_triangular_wave(sine_wave)
    ELSE IF wave_type = "square" THEN create_square_wave(sine_wave)
    ELSE Raise("ValueError")

(***************************************************************************)
(* SoundWaveFactory.generate_group_wave (solution_script.py:341-356).      *)
(***************************************************************************)
\* numpy.zeros(n) for a buffer that sine samples are added to.
zero_samples(n) == [k \in 1..n |-> Silence]

\* Variant: group_wave = note_wave, the buffer replaced instead of added to.
AddInPlaceOverwrite(group_wave, note_wave) == Return(note_wave)

\* group_wave += note_wave, with numpy's broadcasting rule: the shapes
\* must agree unless note_wave has exactly one element.
AddInPlace(group_wave, note_wave) ==
    IF Len(note_wave) = Len(group_wave)
    THEN Return([k \in 1..Len(group_wave) |-> SampleAdd(group_wave[k], note_wave[k])])
    ELSE IF Len(note_wave) = 1
    THEN Return([k \in 1..Len(group_wave) |-> SampleAdd(group_wave[k], note_wave[1])])
    ELSE Raise("ValueError")

\* The length of the buffer allocated for a chord.
GroupBufferLen(duration) == int(RMul(<<SAMPLING_RATE, 1>>, duration))

RECURSIVE GroupLoop(_, _, _, _)
GroupLoop(group_wave, notes, duration, k) ==
    IF k > Len(notes) THEN Return(group_wave)
    ELSE LET note == create_sound_wave(notes[k], duration)
         IN  IF Raised(note) THEN note
             ELSE LET sum == AddInPlace(group_wave, note.value.sound_wave)
                  IN  IF Raised(sum) THEN sum
                      ELSE GroupLoop(sum.value, notes, duration, k + 1)

generate_group_wave(notes, duration) ==
    GroupLoop(zero_samples(GroupBufferLen(duration)), notes, duration, 1)

(***************************************************************************)
(* SoundWaveFactory.read_notes_string (solution_script.py:303-339).        *)
(***************************************************************************)
Digits == {"0", "1", "2", "3", "4", "5", "6", "7", "8", "9"}
DigitVal(c) == CHOOSE v \in 0..9 : <<"0", "1", "2", "3", "4", "5", "6", "7", "8", "9">>[v + 1] = c

RECURSIVE DigitsValue(_, _, _)
\* The number written by the digits of chars[k..], the dot skipped.
DigitsValue(chars, k, acc) ==
    IF k > Len(chars) THEN acc
    ELSE IF chars[k] = "." THEN DigitsValue(chars, k + 1, acc)
    ELSE DigitsValue(chars, k + 1, 10 * acc + DigitVal(chars[k]))

\* Python's float() on a string of the characters used here: digits with at
\* most one dot and at least one digit; anything else raises ValueError.
float(chars) ==
    LET dots == {k \in 1..Len(chars) : chars[k] = "."}
        digits == {k \in 1..Len(chars) : chars[k] \in Digits}
    IN  IF digits = {} \/ Cardinality(dots) > 1
           \/ dots \cup digits # 1..Len(chars)
        THEN Raise("ValueError")
        ELSE LET decimals == IF dots = {} THEN 0
                             ELSE Len(chars) - (CHOOSE k \in dots : TRUE)
             IN  Return(Rat(DigitsValue(chars, 1, 0), 10 ^ decimals))

\* chars[:-1]
ButLast(chars) == SubSeq(chars, 1, Len(chars) - 1)

\* The text a duration is parsed from: the token without its last character.
DurationText(token) == ButLast(token)

\* The end of the run of non-blank characters that starts at pos.
RECURSIVE RunEnd(_, _)
RunEnd(chars, pos) ==
    IF pos < Len(chars) /\ chars[pos + 1] # " " THEN RunEnd(chars, pos + 1) ELSE pos

\* re.findall(r'\(.*?\)|\S+', chars) from position pos: at a "(" with a
\* later ")", the shortest parenthesised stretch; otherwise the longest
\* run of non-blank characters.
RECURSIVE findall(_, _)
findall(chars, pos) ==
    IF pos > Len(chars) THEN <<>>
    ELSE IF chars[pos] = "(" /\ \E j \in pos + 1..Len(chars) : chars[j] = ")"
    THEN LET close == CHOOSE j \in pos + 1..Len(chars) :
                        /\ chars[j] = ")"
                        /\ \A m \in pos + 1..j - 1 : chars[m] # ")"
         IN  <<SubSeq(chars, pos, close)>> \o findall(chars, close + 1)
    ELSE IF chars[pos] # " "
    THEN <<SubSeq(chars, pos, RunEnd(chars, pos))>> \o findall(chars, RunEnd(chars, pos) + 1)
    ELSE findall(chars, pos + 1)

\* str.split(): the runs of non-blank characters.
RECURSIVE split(_, _)
split(chars, pos) ==
    IF pos > Len(chars) THEN <<>>
    ELSE IF chars[pos] # " "
    THEN <<SubSeq(chars, pos, RunEnd(chars, pos))>> \o split(chars, RunEnd(chars, pos) + 1)
    ELSE split(chars, pos + 1)

\* Variant: the arrays joined last to first.
RECURSIVE FlattenReversed(_, _)
FlattenReversed(arrays, k) ==
    IF k > Len(arrays) THEN <<>> ELSE FlattenReversed(arrays, k + 1) \o arrays[k]

RECURSIVE Flatten(_, _)
Flatten(arrays, k) ==
    IF k > Len(arrays) THEN <<>> ELSE arrays[k] \o Flatten(arrays, k + 1)

\* numpy.concatenate; raises ValueError on an empty list.
concatenate(arrays) ==
    IF Len(arrays) = 0 THEN Raise("ValueError") ELSE Return(Flatten(arrays, 1))

\* The while loop; i is the 0-based index into tokens.
RECURSIVE ReadLoop(_, _, _)
ReadLoop(tokens, i, melody_sequence) ==
    IF i >= Len(tokens) THEN concatenate(melody_sequence)
    ELSE LET token == tokens[i + 1]
         IN  IF i + 1 >= Len(tokens) THEN Raise("IndexError")
             ELSE LET duration == float(DurationText(tokens[i + 2]))
                      wave == IF token[1] = "(" /\ token[Len(token)] = ")"
                              THEN generate_group_wave(
                                       split(SubSeq(token, 2, Len(token) - 1), 1),
                                       duration.value)
                              ELSE LET sound_wave == create_sound_wave(token, duration.value)
                                   IN  IF Raised(sound_wave) THEN sound_wave
                                       ELSE Return(sound_wave.value.sound_wave)
                  IN  IF Raised(duration) THEN duration
                      ELSE IF Raised(wave) THEN wave
                      ELSE ReadLoop(tokens, i + 2, Append(melody_sequence, wave.value))

read_notes_string(melody_str) == ReadLoop(findall(melody_str, 1), 0, <<>>)

(***************************************************************************)
(* Inputs.                                                                 *)
(***************************************************************************)
Times == {Rat(k, TimeDen) : k \in 0..MaxTicks}
Durations == Times \cup {<<DURATION_SECONDS, 1>>}
Levels == {Rat(k, LevelDen) : k \in 0..LevelDen}
\* Names looked up in the table: every key, and two names that are absent.
NoteNames == DOMAIN NOTES \cup {<<"h", "1">>, <<"A", "4">>}
\* Sample values of the numeric signals.
SampleVals == {<<-2, 1>>, Zero, One}
ShortSignals == UNION {[1..n -> SampleVals] : n \in 0..MaxShortLen}
\* Signals of every length up to MaxLen, of one repeated sample value.
LongSignals == {[k \in 1..n |-> v] : n \in 0..MaxLen, v \in SampleVals \ {Zero}}
WaveLists == UNION {[1..n -> ShortSignals] : n \in 0..MaxWaves}
WaveTypes == {"triangular", "square", "sawtooth"}
\* Notes of a chord handed to generate_group_wave: two sounding notes, the
\* table's "0" and a name the table lacks.
ChordNotes == {<<"a", "0">>, <<"f", "0">>, <<"0">>, <<"h", "1">>}
Chords == UNION {[1..n -> ChordNotes] : n \in 0..MaxChord}
\* What a melody text is written from: notes (one of them unknown), a
\* chord, durations, and numbers that lack the trailing "s".
KnownEventItems == {<<"a", "0">>, <<"f", "0">>, <<"(", "a", "0", " ", "f", "0", ")">>}
EventItems == KnownEventItems \cup {<<"h", "1">>}
DurationItems == {<<"1", "s">>, <<"0", ".", "5", "s">>}
BareNumberItems == {<<"1", "5">>, <<"2">>}
Vocabulary == EventItems \cup DurationItems \cup BareNumberItems
Compositions == UNION {[1..n -> Vocabulary] : n \in 0..MaxItems}

\* The items written one after another, a blank between neighbours.
RECURSIVE Join(_, _)
Join(items, k) ==
    IF k > Len(items) THEN <<>>
    ELSE IF k = Len(items) THEN items[k]
    ELSE items[k] \o <<" ">> \o Join(items, k + 1)

(***************************************************************************)
(* State: the last call (op, args), the objects it was handed as they are  *)
(* after the call (passed), the locals of perform_adsr_mods (locals), and  *)
(* what the call returned or raised (result).  The caller makes one call   *)
(* at a time and drops its result before the next.                         *)
(***************************************************************************)
VARIABLES op, args, passed, locals, result

vars == <<op, args, passed, locals, result>>

Init ==
    /\ op = "none"
    /\ args = None
    /\ passed = None
    /\ locals = None
    /\ result = Return(None)

CreateSoundWave ==
    /\ op = "none"
    /\ \E note_str \in NoteNames, duration \in Durations \cup {None} :
        /\ op' = "create_sound_wave"
        /\ args' = [note_str |-> note_str, duration |-> duration]
        /\ passed' = None
        /\ locals' = None
        /\ result' = create_sound_wave(note_str, duration)

NormalizeSoundWaves ==
    /\ op = "none"
    /\ \E waves \in WaveLists :
        /\ op' = "normalize_sound_waves"
        /\ args' = [waves |-> waves]
        /\ passed' = waves
        /\ locals' = None
        /\ result' = normalize_sound_waves(waves)

PerformAdsrMods ==
    /\ op = "none"
    /\ \E sound_wave \in LongSignals, attack_time \in Times, decay_time \in Times,
          sustain_level \in Levels, release_time \in Times :
        LET wave == SoundWave(<<"a", "#", "4">>, sound_wave)
            call == perform_adsr_mods(wave, attack_time, decay_time,
                                      sustain_level, release_time)
        IN  /\ op' = "perform_adsr_mods"
            /\ args' = [wave |-> wave, attack_time |-> attack_time,
                        decay_time |-> decay_time, sustain_level |-> sustain_level,
                        release_time |-> release_time]
            /\ passed' = call.wave
            /\ locals' = call.locals
            /\ result' = IF call.error # "" THEN Raise(call.error)
                         ELSE Return(call.wave)

ConvertWave ==
    /\ op = "none"
    /\ \E sine_wave \in ShortSignals, wave_type \in WaveTypes :
        /\ op' = "convert_wave"
        /\ args' = [sine_wave |-> sine_wave, wave_type |-> wave_type]
        /\ passed' = sine_wave
        /\ locals' = None
        /\ result' = convert_wave(sine_wave, wave_type)

GenerateGroupWave ==
    /\ op = "none"
    /\ \E notes \in Chords, duration \in Times :
        /\ op' = "generate_group_wave"
        /\ args' = [notes |-> notes, duration |-> duration]
        /\ passed' = None
        /\ locals' = None
        /\ result' = generate_group_wave(notes, duration)

\* items is the composition the text was written from; the method is
\* handed the text alone.
ReadNotesString ==
    /\ op = "none"
    /\ \E items \in Compositions :
        /\ op' = "read_notes_string"
        /\ args' = [melody_str |-> Join(items, 1), items |-> items]
        /\ passed' = None
        /\ locals' = None
        /\ result' = read_notes_string(Join(items, 1))

\* The caller is done with the result and goes on to its next call.
Done ==
    /\ op # "none"
    /\ op' = "none"
    /\ args' = None
    /\ passed' = None
    /\ locals' = None
    /\ result' = Return(None)

Next ==
    \/ CreateSoundWave
    \/ NormalizeSoundWaves
    \/ PerformAdsrMods
    \/ ConvertWave
    \/ GenerateGroupWave
    \/ ReadNotesString
    \/ Done

Spec == Init /\ [][Next]_vars

(***************************************************************************)
(* Properties.                                                             *)
(***************************************************************************)
Rate == <<SAMPLING_RATE, 1>>

\* perform_adsr_mods: the envelope's total time and the signal's duration.
EnvelopeTime == RAdd(RAdd(args.attack_time, args.decay_time), args.release_time)
SignalLen == Len(args.wave.sound_wave)
SignalDuration == RDiv(<<SignalLen, 1>>, Rate)

\* C1: when attack + decay + release fit in the signal, perform_adsr_mods
\* returns, and the gain equals sustain_level at every sample index from
\* (attack + decay) * sampling_rate up to len(signal) - release *
\* sampling_rate.
C1_SustainHeldUntilRelease ==
    (op = "perform_adsr_mods" /\ RLeq(EnvelopeTime, SignalDuration)) =>
        /\ ~Raised(result)
        /\ \A i \in 0..SignalLen - 1 :
            (/\ RLeq(RMul(RAdd(args.attack_time, args.decay_time), Rate), <<i, 1>>)
             /\ RLess(<<i, 1>>, RSub(<<SignalLen, 1>>, RMul(args.release_time, Rate))))
            => locals.envelope[i + 1] = args.sustain_level

\* The melody text's composition, read as the grammar reads it.
ItemDuration(item) == IF item = <<"1", "s">> THEN One ELSE <<1, 2>>
ItemNotes(item) ==
    IF item[1] = "(" THEN <<<<"a", "0">>, <<"f", "0">>>> ELSE <<item>>
\* Some note or chord is not directly followed by a duration <number>s.
Malformed(items) ==
    \E k \in 1..Len(items) :
        /\ items[k] \in EventItems
        /\ k = Len(items) \/ items[k + 1] \notin DurationItems
\* Known notes or chords, each directly followed by its duration.
WellFormed(items) ==
    /\ Len(items) >= 2
    /\ Len(items) % 2 = 0
    /\ \A k \in 1..Len(items) :
        IF k % 2 = 1 THEN items[k] \in KnownEventItems ELSE items[k] \in DurationItems

\* C2: a melody text in which some note or chord token is not directly
\* followed by a duration token <number>s makes read_notes_string raise;
\* it returns no signal.
C2_MalformedMelodyRejected ==
    (op = "read_notes_string" /\ Malformed(args.items)) => Raised(result)

\* Event e of a well-formed composition: its length in samples, the index
\* before its first sample in the melody, and its signal generated alone.
EventLen(items, e) == RFloor(RMul(ItemDuration(items[2 * e]), Rate))[1]
RECURSIVE EventStart(_, _)
EventStart(items, e) ==
    IF e = 1 THEN 0 ELSE EventStart(items, e - 1) + EventLen(items, e - 1)
EventSignal(items, e) ==
    LET notes == ItemNotes(items[2 * e - 1])
        duration == ItemDuration(items[2 * e])
    IN  IF items[2 * e - 1][1] = "("
        THEN generate_group_wave(notes, duration).value
        ELSE get_normed_sin(set_custom_common_timeline(duration), NOTES[notes[1]])

\* C3: for a well-formed melody text read_notes_string returns the
\* concatenation, in textual order, of one signal per event: the length is
\* the sum of floor(duration * sampling_rate) over the events and the
\* samples of event e are the signal generated for that event alone.
C3_MelodyIsConcatenationOfEvents ==
    (op = "read_notes_string" /\ WellFormed(args.items)) =>
        LET items == args.items
            n == Len(items) \div 2
        IN  /\ ~Raised(result)
            /\ Len(result.value) = EventStart(items, n) + EventLen(items, n)
            /\ \A e \in 1..n :
                /\ Len(EventSignal(items, e)) = EventLen(items, e)
                /\ SubSeq(result.value, EventStart(items, e) + 1,
                          EventStart(items, e) + EventLen(items, e))
                   = EventSignal(items, e)

C3_Witness ==
    /\ op = "read_notes_string"
    /\ WellFormed(args.items)
    /\ Len(args.items) = 4
    /\ args.items[1] # args.items[3]
    /\ args.items[2] # args.items[4]
    /\ ~Raised(result)
    /\ \E k \in 1..Len(result.value) : result.value[k] # Silence

\* The sample indices perform_adsr_mods writes for each segment.
AttackIndices == 0..locals.attack_samples - 1
DecayIndices ==
    locals.attack_samples..locals.attack_samples + locals.decay_samples - 1
SustainStart == locals.attack_samples + locals.decay_samples
SustainIndices == SustainStart..SustainStart + locals.sustain_samples - 1
ReleaseStart == SustainStart + locals.sustain_samples
ReleaseIndices == ReleaseStart..ReleaseStart + locals.release_samples - 1

\* C4: when attack + decay + release exceed the signal's duration,
\* perform_adsr_mods either raises and leaves the wave as it was, or it
\* returns a wave whose segments have non-negative lengths, do not overlap
\* and lie inside 0..len(signal)-1.
C4_OverlongEnvelopeRejectedOrInside ==
    (op = "perform_adsr_mods" /\ RLess(SignalDuration, EnvelopeTime)) =>
        \/ Raised(result) /\ passed = args.wave
        \/ /\ ~Raised(result)
           /\ locals.sustain_samples >= 0
           /\ AttackIndices \cup DecayIndices \cup SustainIndices \cup ReleaseIndices
                \subseteq 0..SignalLen - 1
           /\ ReleaseStart >= SustainStart
           /\ Cardinality(AttackIndices \cup DecayIndices \cup SustainIndices
                          \cup ReleaseIndices)
              = locals.attack_samples + locals.decay_samples
                + locals.sustain_samples + locals.release_samples

C4_Witness ==
    /\ op = "perform_adsr_mods"
    /\ RLess(SignalDuration, EnvelopeTime)
    /\ locals.sustain_samples < 0
    /\ SignalLen > 0
    /\ result.error = "IndexError"

\* C5: convert_wave(signal, 'square') of a signal with a non-zero sample
\* returns a signal of the same length whose samples are all 0 or 1.
C5_SquareIsBilevel ==
    (/\ op = "convert_wave"
     /\ args.wave_type = "square"
     /\ \E k \in 1..Len(args.sine_wave) : args.sine_wave[k] # Zero) =>
        /\ ~Raised(result)
        /\ Len(result.value) = Len(args.sine_wave)
        /\ \A k \in 1..Len(result.value) : result.value[k] \in {Zero, One}

\* C6: create_sound_wave(name) either raises the unknown-note error or
\* resolves the name to a strictly positive frequency.
C6_AcceptedNoteHasPositiveFrequency ==
    op = "create_sound_wave" =>
        \/ result.error = "KeyError"
        \/ /\ ~Raised(result)
           /\ RLess(Zero, NOTES[args.note_str])

\* C7: create_sound_wave(note) without a duration returns the same signal
\* as create_sound_wave(note, DURATION_SECONDS), the default timeline
\* being the explicit timeline of that duration.
C7_DefaultMatchesExplicit ==
    (op = "create_sound_wave" /\ args.duration = None /\ ~Raised(result)) =>
        /\ common_timeline = set_custom_common_timeline(<<DURATION_SECONDS, 1>>)
        /\ result = create_sound_wave(args.note_str, <<DURATION_SECONDS, 1>>)

\* normalize_sound_waves: the shortest input's length, and whether input k
\* has a non-zero sample among its first ShortestLen samples.
ShortestLen ==
    CHOOSE n \in 0..MaxShortLen + 1 :
        /\ \E k \in 1..Len(args.waves) : Len(args.waves[k]) = n
        /\ \A k \in 1..Len(args.waves) : Len(args.waves[k]) >= n
KeepsNonZero(k) == \E j \in 1..ShortestLen : args.waves[k][j] # Zero

\* C8: for a non-empty list of signals that each keep a non-zero sample
\* within the shortest length, normalize_sound_waves returns one signal
\* per input, in order, each of the shortest length and a positive
\* multiple of its input's prefix with peak absolute value MAX_AMPLITUDE;
\* the inputs are left unchanged.
C8_NormalizedToShortestAndPeak ==
    (/\ op = "normalize_sound_waves"
     /\ Len(args.waves) > 0
     /\ \A k \in 1..Len(args.waves) : KeepsNonZero(k)) =>
        /\ ~Raised(result)
        /\ passed = args.waves
        /\ Len(result.value) = Len(args.waves)
        /\ \A k \in 1..Len(args.waves) :
            LET in == args.waves[k]
                out == result.value[k]
            IN  /\ Len(out) = ShortestLen
                /\ \A j \in 1..ShortestLen :
                    /\ IsFinite(out[j])
                    /\ RLeq(RAbs(out[j]), <<MAX_AMPLITUDE, 1>>)
                    /\ Sgn(out[j][1]) = Sgn(in[j][1])
                    /\ \A m \in 1..ShortestLen :
                        RMul(out[j], in[m]) = RMul(out[m], in[j])
                /\ \E j \in 1..ShortestLen : RAbs(out[j]) = <<MAX_AMPLITUDE, 1>>

C8_Witness ==
    /\ op = "normalize_sound_waves"
    /\ Len(args.waves) >= 2
    /\ \A k \in 1..Len(args.waves) : KeepsNonZero(k)
    /\ \E k \in 1..Len(args.waves) : Len(args.waves[k]) > ShortestLen
    /\ ~Raised(result)
    /\ \E k \in 1..Len(args.waves) : result.value[k] # Prefix(args.waves[k], ShortestLen)

\* C9: normalize_sound_waves raises whenever some input, cut to the
\* shortest input's length, has no non-zero sample.
C9_ZeroPeakRejected ==
    (/\ op = "normalize_sound_waves"
     /\ Len(args.waves) > 0
     /\ \E k \in 1..Len(args.waves) : ~KeepsNonZero(k)) => Raised(result)

\* generate_group_wave: the signal of note k generated alone at the
\* chord's duration, and the sum of the notes' coefficients of one sine
\* term q at sample j.
NoteAlone(k) == create_sound_wave(args.notes[k], args.duration).value.sound_wave
RECURSIVE CoefSum(_, _, _)
CoefSum(j, q, k) ==
    IF k = 0 THEN 0 ELSE Coef(NoteAlone(k)[j], q) + CoefSum(j, q, k - 1)
Reverse(seq) == [k \in 1..Len(seq) |-> seq[Len(seq) + 1 - k]]

\* C10: for a chord of known notes generate_group_wave returns a signal
\* as long as each note's signal at that duration whose sample j is the
\* sum of the notes' samples j; the notes' order does not matter and a
\* chord of one note is that note's signal.
C10_GroupWaveIsSuperposition ==
    (op = "generate_group_wave" /\ \A k \in 1..Len(args.notes) : args.notes[k] \in DOMAIN NOTES) =>
        /\ ~Raised(result)
        /\ \A k \in 1..Len(args.notes) : Len(NoteAlone(k)) = Len(result.value)
        /\ \A j \in 1..Len(result.value) :
            LET terms == {t[2] : t \in result.value[j]}
                           \cup UNION {{t[2] : t \in NoteAlone(k)[j]} : k \in 1..Len(args.notes)}
            IN  /\ \A q \in terms : Coef(result.value[j], q) = CoefSum(j, q, Len(args.notes))
                /\ \A t \in result.value[j] : t[1] # 0
                /\ Cardinality({t[2] : t \in result.value[j]}) = Cardinality(result.value[j])
        /\ result = generate_group_wave(Reverse(args.notes), args.duration)
        /\ Len(args.notes) = 1 => result.value = NoteAlone(1)

C10_Witness ==
    /\ op = "generate_group_wave"
    /\ Len(args.notes) >= 2
    /\ args.notes[1] # args.notes[2]
    /\ \A k \in 1..Len(args.notes) : args.notes[k] \in DOMAIN NOTES
    /\ ~Raised(result)
    /\ \E j \in 1..Len(result.value) : Cardinality(result.value[j]) = 2


=============================================================================
